---- MODULE Spec2Model ----
(***************************************************************************)
(* Model of the pipeline orchestrator src/main.py (function go).           *)
(*                                                                         *)
(* Text is modelled as a sequence of chunks: a chunk is one character      *)
(* (a digit, ",", "/", a quote ...) or an opaque word ("download").  The   *)
(* operators that work on text (split, str, json.dump, abspath) work on    *)
(* these sequences the way the Python functions work on characters.        *)
(* A Python value is a record [t |-> type tag, v |-> payload].             *)
(***************************************************************************)
EXTENDS Integers, Sequences, FiniteSets, TLC

VARIABLES
    pc,            \* position of the process inside go()
    run,           \* number of the current invocation of go()
    config,        \* the DictConfig handed to go() by hydra
    environ,       \* os.environ, the two keys go() sets
    steps_par,     \* local variable steps_par
    active_steps,  \* local variable active_steps
    tmp_dir,       \* the directory bound by the with statement
    dirs,          \* temporary directories that exist on disk
    files,         \* regular files on disk: path -> content
    fp,            \* the open file object of line 97 (path and buffer)
    rf_config,     \* local variable rf_config
    idx,           \* which of the six if-blocks is reached
    inflight,      \* the step mlflow.run is blocked on
    failed,        \* the step whose mlflow.run raised in this invocation
    log,           \* events of this invocation, in order: open and close of
                   \* the file, launch, return and raise of mlflow.run
    files0         \* the files on disk when this invocation started

vars == <<pc, run, config, environ, steps_par, active_steps, tmp_dir, dirs,
          files, fp, rf_config, idx, inflight, failed, log, files0>>

-----------------------------------------------------------------------------
(* Bounds of the model *)

MaxRuns == 2
MaxTokens == 2

-----------------------------------------------------------------------------
(* Python values *)

None == [t |-> "none", v |-> <<>>]
PyStr(s) == [t |-> "str", v |-> s]
PyInt(n) == [t |-> "int", v |-> n]
\* a float with one decimal digit: whole.tenth
PyFloat(whole, tenth) == [t |-> "float", v |-> <<whole, tenth>>]
PyBool(b) == [t |-> "bool", v |-> b]

ValEq(a, b) == a.t = b.t /\ a.v = b.v

Digits == <<"0", "1", "2", "3", "4", "5", "6", "7", "8", "9">>

RECURSIVE NatToStr(_)
NatToStr(n) ==
    IF n < 10 THEN <<Digits[n + 1]>>
    ELSE NatToStr(n \div 10) \o <<Digits[(n % 10) + 1]>>

IntToStr(n) == IF n < 0 THEN <<"-">> \o NatToStr(-n) ELSE NatToStr(n)

FloatToStr(f) == NatToStr(f[1]) \o <<".">> \o <<Digits[f[2] + 1]>>

\* the builtin str()
str(x) ==
    CASE x.t = "str" -> x.v
      [] x.t = "int" -> IntToStr(x.v)
      [] x.t = "float" -> FloatToStr(x.v)
      [] x.t = "bool" -> IF x.v THEN <<"True">> ELSE <<"False">>
      [] x.t = "none" -> <<"None">>

-----------------------------------------------------------------------------
(* str.split(",") and the step catalogue *)

RECURSIVE SplitFrom(_, _, _, _)
SplitFrom(s, i, cur, acc) ==
    IF i > Len(s) THEN Append(acc, cur)
    ELSE IF s[i] = "," THEN SplitFrom(s, i + 1, <<>>, Append(acc, cur))
    ELSE SplitFrom(s, i + 1, Append(cur, s[i]), acc)

RECURSIVE Dedup(_, _)
Dedup(list, seen) ==
    IF list = <<>> THEN <<>>
    ELSE IF Head(list) \in seen THEN Dedup(Tail(list), seen)
    ELSE <<Head(list)>> \o Dedup(Tail(list), seen \cup {Head(list)})

\* variant: the words of the list with repeated words dropped
split_dedup(s) == Dedup(SplitFrom(s, 1, <<>>, <<>>), {})

split(s) == SplitFrom(s, 1, <<>>, <<>>)

\* variant: an entry of the list written twice
_steps_repeated ==
    << <<"download">>, <<"download">>, <<"basic_cleaning">>, <<"data_check">>,
       <<"data_split">>, <<"train_random_forest">> >>

\* variant: the evaluation step left in the list
_steps_with_test ==
    << <<"download">>, <<"basic_cleaning">>, <<"data_check">>,
       <<"data_split">>, <<"train_random_forest">>,
       <<"test_regression_model">> >>

_steps == << <<"download">>, <<"basic_cleaning">>, <<"data_check">>,
             <<"data_split">>, <<"train_random_forest">> >>

\* the names tested by the six if-blocks of go(), in program order
IfBlocks == << <<"download">>, <<"basic_cleaning">>, <<"data_check">>,
               <<"data_split">>, <<"train_random_forest">>,
               <<"test_regression_model">> >>

\* variant: the blocks are dispatched in the order of the list
BlockAtListed(i, list) ==
    IF i <= Len(list) /\ (\E k \in 1..Len(IfBlocks) : IfBlocks[k] = list[i])
    THEN list[i]
    ELSE <<"(no block)">>

\* the step name tested by the i-th if-block; the order of the blocks is fixed
\* in the program text and does not depend on the list
BlockAt(i, list) == IfBlocks[i]

\* variant: "all" recognised as one of the words of a list
ResolveAnyAll(sp) ==
    IF \E i \in 1..Len(split(sp)) : split(sp)[i] = <<"all">>
    THEN _steps ELSE split(sp)

\* active_steps = steps_par.split(",") if steps_par != "all" else _steps
Resolve(sp) == IF sp # <<"all">> THEN split(sp) ELSE _steps

\* variant: the test made on the words' text instead of the list's elements
InListSubstring(name, list) ==
    \E i \in 1..Len(list) :
        \E j \in 1..Len(list[i]) : <<list[i][j]>> = name

\* the list-membership test  "name" in active_steps
InList(name, list) == \E i \in 1..Len(list) : list[i] = name

-----------------------------------------------------------------------------
(* Paths and the file system *)

NoPath == <<>>
NoStep == <<>>

\* os.getcwd(): go() never calls os.chdir, so it is the launch directory
getcwd == <<"/project">>

\* os.path.join of two components
join(a, b) == a \o <<"/">> \o b

\* os.path.abspath of a relative file name
abspath(name) == join(getcwd, name)

\* the fresh directory made by tempfile.TemporaryDirectory() in invocation n
mkdtemp(n) == <<"/tmp", "/", "tmp">> \o NatToStr(n)

Under(p, d) ==
    /\ Len(p) > Len(d)
    /\ SubSeq(p, 1, Len(d)) = d
    /\ p[Len(d) + 1] = "/"

Exists(fs, p) == p \in DOMAIN fs

WriteFile(fs, p, content) ==
    [q \in (DOMAIN fs) \cup {p} |-> IF q = p THEN content ELSE fs[q]]

\* TemporaryDirectory.cleanup(): the directory goes with everything in it
rmtree(fs, d) == [q \in {r \in DOMAIN fs : ~Under(r, d)} |-> fs[q]]

\* variant: the file opened for appending
OpenedContentAppend(fs, p) == IF p \in DOMAIN fs THEN fs[p] ELSE <<>>

\* content of the file right after open(path, "w+"): created or truncated
OpenedContent(fs, p) == <<>>

-----------------------------------------------------------------------------
(* json.dump of a flat mapping, given as a sequence of <<key, value>> pairs *)

RECURSIVE JsonEscape(_)
JsonEscape(s) ==
    IF s = <<>> THEN <<>>
    ELSE (IF Head(s) \in {"\"", "\\"} THEN <<"\\", Head(s)>> ELSE <<Head(s)>>)
         \o JsonEscape(Tail(s))

JsonString(s) == <<"\"">> \o JsonEscape(s) \o <<"\"">>

JsonValue(x) ==
    CASE x.t = "str" -> JsonString(x.v)
      [] x.t = "int" -> IntToStr(x.v)
      [] x.t = "float" -> FloatToStr(x.v)
      [] x.t = "bool" -> IF x.v THEN <<"true">> ELSE <<"false">>
      [] x.t = "none" -> <<"null">>

RECURSIVE JsonMembers(_)
JsonMembers(pairs) ==
    IF pairs = <<>> THEN <<>>
    ELSE JsonString(Head(pairs)[1]) \o <<":", " ">> \o JsonValue(Head(pairs)[2])
         \o (IF Len(pairs) > 1 THEN <<",", " ">> ELSE <<>>)
         \o JsonMembers(Tail(pairs))

json_dump(pairs) == <<"{">> \o JsonMembers(pairs) \o <<"}">>

-----------------------------------------------------------------------------
(* The configuration tree (config.yaml, read by hydra) *)

RECURSIVE JoinComma(_)
JoinComma(tokens) ==
    IF tokens = <<>> THEN <<>>
    ELSE IF Len(tokens) = 1 THEN Head(tokens)
    ELSE Head(tokens) \o <<",">> \o JoinComma(Tail(tokens))

\* the words a caller writes between the commas of main.steps
Vocabulary ==
    {IfBlocks[i] : i \in 1..Len(IfBlocks)}
        \cup {<<"all">>, <<"bogus_step">>, <<>>, <<"download", "_raw">>}

RECURSIVE ListsUpTo(_)
ListsUpTo(n) ==
    IF n = 0 THEN {<<>>}
    ELSE LET shorter == ListsUpTo(n - 1)
         IN  shorter \cup {Append(l, w) : l \in shorter, w \in Vocabulary}

\* every value of main.steps with at most MaxTokens comma-separated words
Selections == {JoinComma(l) : l \in ListsUpTo(MaxTokens)}

RandomForest1 ==
    << <<(<<"n_estimators">>), PyInt(100)>>,
       <<(<<"max_depth">>), PyInt(15)>>,
       <<(<<"n_jobs">>), PyInt(-1)>>,
       <<(<<"criterion">>), PyStr(<<"squared_error">>)>>,
       <<(<<"max_features">>), PyFloat(0, 5)>>,
       <<(<<"oob_score">>), PyBool(TRUE)>> >>

RandomForest2 ==
    << <<(<<"max_depth">>), None>>,
       <<(<<"n_estimators">>), PyStr(<<"1", "0">>)>>,
       <<(<<"criterion">>), PyStr(<<"a", "\"", "b", "\\", ",", " ">>)>> >>

RandomForest3 == <<>>

Modeling(seed, test_size, val_size, tfidf, forest) ==
    [test_size |-> test_size,
     val_size |-> val_size,
     random_seed |-> seed,
     stratify_by |-> PyStr(<<"neighbourhood_group">>),
     max_tfidf_features |-> tfidf,
     random_forest |-> forest]

DefaultModeling ==
    Modeling(PyInt(42), PyFloat(0, 2), PyFloat(0, 2), PyInt(5), RandomForest1)

Modelings ==
    {Modeling(seed, ts, vs, tf, forest) :
        seed \in {PyInt(42), PyInt(7)},
        ts \in {PyFloat(0, 2), PyInt(100)},
        vs \in {PyFloat(0, 2), PyFloat(0, 3)},
        tf \in {PyInt(5), PyInt(10)},
        forest \in {RandomForest1, RandomForest2, RandomForest3}}

Config(steps, modeling) ==
    [main |-> [project_name |-> PyStr(<<"nyc_airbnb">>),
               experiment_name |-> PyStr(<<"development">>),
               steps |-> PyStr(steps),
               components_repository |-> PyStr(<<"https://components">>)],
     etl |-> [sample |-> PyStr(<<"sample1.csv">>),
              min_price |-> PyInt(10),
              max_price |-> PyInt(350)],
     data_check |-> [kl_threshold |-> PyFloat(0, 2)],
     modeling |-> modeling]

NoConfig == Config(<<>>, DefaultModeling)

\* selections that reach the split and training blocks, for the binding runs
BindSelections ==
    {<<"all">>,
     <<"train_random_forest">>,
     <<"data_split">>,
     <<"data_split", ",", "train_random_forest">>,
     <<"train_random_forest", ",", "test_regression_model">>,
     <<"basic_cleaning", ",", "data_check">>}

Configs == {Config(sel, DefaultModeling) : sel \in Selections}

BindConfigs == {Config(sel, m) : sel \in BindSelections, m \in Modelings}

\* what a key that is not in the configuration holds: reading it raises
Missing == [t |-> "missing", v |-> <<>>]

\* a key of the configuration, as <<section, name>>
Has(cfg, k) == cfg[k[1]][k[2]] # Missing

HasAll(cfg, keys) == \A k \in keys : Has(cfg, k)

\* lines 28-32: the keys go() reads before the with statement
MainKeys ==
    {<<"main", "project_name">>,
     <<"main", "experiment_name">>,
     <<"main", "steps">>}

\* the keys an if-block reads to build the arguments of its mlflow.run call
BlockKeys(step) ==
    CASE step = <<"download">> ->
            {<<"main", "components_repository">>, <<"etl", "sample">>}
      [] step = <<"basic_cleaning">> ->
            {<<"etl", "min_price">>, <<"etl", "max_price">>}
      [] step = <<"data_check">> ->
            {<<"data_check", "kl_threshold">>,
             <<"etl", "min_price">>, <<"etl", "max_price">>}
      [] step = <<"data_split">> ->
            {<<"main", "components_repository">>,
             <<"modeling", "test_size">>,
             <<"modeling", "random_seed">>,
             <<"modeling", "stratify_by">>}
      [] step = <<"train_random_forest">> ->
            {<<"modeling", "val_size">>,
             <<"modeling", "random_seed">>,
             <<"modeling", "stratify_by">>,
             <<"modeling", "max_tfidf_features">>}
      [] step = <<"test_regression_model">> ->
            {<<"main", "components_repository">>}

\* line 98: the key read inside the inner with statement
DumpKeys == {<<"modeling", "random_forest">>}

ConfigKeys ==
    MainKeys \cup DumpKeys
        \cup UNION {BlockKeys(IfBlocks[i]) : i \in 1..Len(IfBlocks)}

Without(cfg, k) == [cfg EXCEPT ![k[1]][k[2]] = Missing]

\* every selection, the default settings with one key left out
LackingConfigs ==
    {Without(Config(sel, DefaultModeling), k) :
        sel \in Selections, k \in ConfigKeys}

-----------------------------------------------------------------------------
(* What each if-block hands to mlflow.run *)

Uri(step, cfg) ==
    CASE step = <<"download">> ->
            cfg.main.components_repository.v \o <<"/">> \o <<"get_data">>
      [] step = <<"basic_cleaning">> ->
            join(join(getcwd, <<"src">>), <<"basic_cleaning">>)
      [] step = <<"data_check">> ->
            join(join(getcwd, <<"src">>), <<"data_check">>)
      [] step = <<"data_split">> ->
            join(cfg.main.components_repository.v, <<"train_val_test_split">>)
      [] step = <<"train_random_forest">> ->
            join(join(getcwd, <<"src">>), <<"train_random_forest">>)
      [] step = <<"test_regression_model">> ->
            join(cfg.main.components_repository.v, <<"test_regression_model">>)

\* variant: the configuration value bound as it is
NotStringified(x) == x

\* str() applied to a configuration value before it is bound
Stringified(x) == PyStr(str(x))

\* variant: the cleaning step pointed at the artifact type, not its name
CleaningParametersMiswired(cfg) ==
    [input_artifact |-> PyStr(<<"raw_data", ":", "latest">>),
     output_artifact |-> PyStr(<<"clean_data.csv">>),
     output_type |-> PyStr(<<"clean_data">>),
     output_description |-> PyStr(<<"Cleaned data">>),
     min_price |-> cfg.etl.min_price,
     max_price |-> cfg.etl.max_price]

\* lines 57-64: the parameters of basic_cleaning
CleaningParameters(cfg) ==
    [input_artifact |-> PyStr(<<"sample.csv", ":", "latest">>),
     output_artifact |-> PyStr(<<"clean_data.csv">>),
     output_type |-> PyStr(<<"clean_data">>),
     output_description |-> PyStr(<<"Cleaned data">>),
     min_price |-> cfg.etl.min_price,
     max_price |-> cfg.etl.max_price]

Parameters(step, cfg, rf_path) ==
    CASE step = <<"download">> ->
            [sample |-> cfg.etl.sample,
             artifact_name |-> PyStr(<<"sample.csv">>),
             artifact_type |-> PyStr(<<"raw_data">>),
             artifact_description |-> PyStr(<<"Raw file as downloaded">>)]
      [] step = <<"basic_cleaning">> -> CleaningParameters(cfg)
      [] step = <<"data_check">> ->
            [csv |-> PyStr(<<"clean_data.csv", ":", "latest">>),
             ref |-> PyStr(<<"clean_data.csv", ":", "reference">>),
             kl_threshold |-> cfg.data_check.kl_threshold,
             min_price |-> cfg.etl.min_price,
             max_price |-> cfg.etl.max_price]
      [] step = <<"data_split">> ->
            [input |-> PyStr(<<"clean_data.csv", ":", "latest">>),
             test_size |-> Stringified(cfg.modeling.test_size),
             random_seed |-> Stringified(cfg.modeling.random_seed),
             stratify_by |-> cfg.modeling.stratify_by]
      [] step = <<"train_random_forest">> ->
            [trainval_artifact |->
                 PyStr(<<"trainval_data.csv", ":", "latest">>),
             val_size |-> Stringified(cfg.modeling.val_size),
             random_seed |-> Stringified(cfg.modeling.random_seed),
             stratify_by |-> cfg.modeling.stratify_by,
             rf_config |-> PyStr(rf_path),
             max_tfidf_features |->
                 Stringified(cfg.modeling.max_tfidf_features),
             output_artifact |-> PyStr(<<"model_export">>)]
      [] step = <<"test_regression_model">> ->
            [mlflow_model |-> PyStr(<<"model_export", ":", "v5">>),
             test_dataset |-> PyStr(<<"test_data.csv", ":", "latest">>)]

-----------------------------------------------------------------------------
(* The process: one action per step of go() *)

RfFile == <<"rf_config.json">>
TrainStep == <<"train_random_forest">>

Closed == [path |-> NoPath, buf |-> <<>>]
EmptyFS == [q \in {} |-> <<>>]

\* what an earlier invocation or the user may have left at ./rf_config.json
StaleForest ==
    << <<(<<"n_estimators">>), PyInt(200)>>,
       <<(<<"max_depth">>), PyInt(50)>>,
       <<(<<"min_samples_split">>), PyInt(4)>>,
       <<(<<"min_samples_leaf">>), PyInt(3)>>,
       <<(<<"n_jobs">>), PyInt(-1)>>,
       <<(<<"criterion">>), PyStr(<<"absolute_error">>)>>,
       <<(<<"max_features">>), PyFloat(0, 5)>>,
       <<(<<"oob_score">>), PyBool(TRUE)>> >>

InitialFiles ==
    {EmptyFS, WriteFile(EmptyFS, abspath(RfFile), json_dump(StaleForest))}

Init ==
    /\ pc = "Idle"
    /\ run = 0
    /\ config = NoConfig
    /\ environ = [WANDB_PROJECT |-> None, WANDB_RUN_GROUP |-> None]
    /\ steps_par = <<>>
    /\ active_steps = <<>>
    /\ tmp_dir = NoPath
    /\ dirs = {}
    /\ files \in InitialFiles
    /\ fp = Closed
    /\ rf_config = NoPath
    /\ idx = 0
    /\ inflight = NoStep
    /\ failed = NoStep
    /\ log = <<>>
    /\ files0 = files

\* variant: the two environment variables are not set
GoEnvUnset(cfg) ==
    /\ pc = "Idle"
    /\ run < MaxRuns
    /\ HasAll(cfg, MainKeys)
    /\ run' = run + 1
    /\ config' = cfg
    /\ steps_par' = cfg.main.steps.v
    /\ active_steps' = Resolve(cfg.main.steps.v)
    /\ tmp_dir' = NoPath
    /\ rf_config' = NoPath
    /\ idx' = 0
    /\ failed' = NoStep
    /\ log' = <<>>
    /\ pc' = "Initializing"
    /\ files0' = files
    /\ UNCHANGED <<environ, dirs, files, fp, inflight>>

\* a new process calls go(); lines 25-33: the environment and the step list
Go(cfg) ==
    /\ pc = "Idle"
    /\ run < MaxRuns
    /\ HasAll(cfg, MainKeys)
    /\ run' = run + 1
    /\ config' = cfg
    /\ environ' = [WANDB_PROJECT |-> cfg.main.project_name,
                   WANDB_RUN_GROUP |-> cfg.main.experiment_name]
    /\ steps_par' = cfg.main.steps.v
    /\ active_steps' = Resolve(cfg.main.steps.v)
    /\ tmp_dir' = NoPath
    /\ rf_config' = NoPath
    /\ idx' = 0
    /\ failed' = NoStep
    /\ log' = <<>>
    /\ pc' = "Initializing"
    /\ files0' = files
    /\ UNCHANGED <<dirs, files, fp, inflight>>

\* lines 28-32 with a key missing: the read raises and go() ends before the
\* with statement; the assignments above the failing line have taken effect
GoRaises(cfg) ==
    /\ pc = "Idle"
    /\ run < MaxRuns
    /\ ~HasAll(cfg, MainKeys)
    /\ run' = run + 1
    /\ config' = cfg
    /\ environ' =
          IF ~Has(cfg, <<"main", "project_name">>) THEN environ
          ELSE IF ~Has(cfg, <<"main", "experiment_name">>)
               THEN [environ EXCEPT !.WANDB_PROJECT = cfg.main.project_name]
               ELSE [WANDB_PROJECT |-> cfg.main.project_name,
                     WANDB_RUN_GROUP |-> cfg.main.experiment_name]
    /\ steps_par' = <<>>
    /\ active_steps' = <<>>
    /\ tmp_dir' = NoPath
    /\ rf_config' = NoPath
    /\ idx' = 0
    /\ failed' = NoStep
    /\ log' = <<>>
    /\ pc' = "Failed"
    /\ files0' = files
    /\ UNCHANGED <<dirs, files, fp, inflight>>

\* line 36: entering the with statement
EnterWith ==
    /\ pc = "Initializing"
    /\ tmp_dir' = mkdtemp(run)
    /\ dirs' = dirs \cup {mkdtemp(run)}
    /\ idx' = 1
    /\ pc' = "InWith"
    /\ UNCHANGED <<run, config, environ, steps_par, active_steps, files, fp,
                   rf_config, inflight, failed, log, files0>>

\* an if-block whose test is false
Skip ==
    /\ pc = "InWith"
    /\ idx \in 1..Len(IfBlocks)
    /\ ~InList(BlockAt(idx, active_steps), active_steps)
    /\ idx' = idx + 1
    /\ UNCHANGED <<pc, run, config, environ, steps_par, active_steps, tmp_dir,
                   dirs, files, fp, rf_config, inflight, failed, log, files0>>

\* lines 96-97: the path, and open(rf_config, "w+")
OpenRfConfig ==
    /\ pc = "InWith"
    /\ idx \in 1..Len(IfBlocks)
    /\ BlockAt(idx, active_steps) = TrainStep
    /\ InList(BlockAt(idx, active_steps), active_steps)
    /\ rf_config' = abspath(RfFile)
    /\ files' = WriteFile(files, abspath(RfFile),
                          OpenedContent(files, abspath(RfFile)))
    /\ fp' = [path |-> abspath(RfFile), buf |-> <<>>]
    /\ log' = Append(log, [op |-> "open", path |-> abspath(RfFile)])
    /\ pc' = "Dumping"
    /\ UNCHANGED <<run, config, environ, steps_par, active_steps, tmp_dir,
                   dirs, idx, inflight, failed, files0>>

\* variant: json.dump fills the buffer and the file is still open at launch
DumpRfConfigLeftOpen ==
    /\ pc = "Dumping"
    /\ HasAll(config, DumpKeys)
    /\ fp' = [fp EXCEPT !.buf = json_dump(config.modeling.random_forest)]
    /\ pc' = "Dumped"
    /\ UNCHANGED <<run, config, environ, steps_par, active_steps, tmp_dir,
                   dirs, files, rf_config, idx, inflight, failed, log, files0>>

\* line 98 and the end of the inner with: json.dump, then the file is closed
DumpRfConfig ==
    /\ pc = "Dumping"
    /\ HasAll(config, DumpKeys)
    /\ files' = WriteFile(files, fp.path,
                          files[fp.path] \o fp.buf
                              \o json_dump(config.modeling.random_forest))
    /\ fp' = Closed
    /\ log' = Append(log, [op |-> "close", path |-> fp.path])
    /\ pc' = "Dumped"
    /\ UNCHANGED <<run, config, environ, steps_par, active_steps, tmp_dir,
                   dirs, rf_config, idx, inflight, failed, files0>>

\* variant: the step is started and go() does not wait for it
LaunchAsync ==
    /\ idx \in 1..Len(IfBlocks)
    /\ pc = (IF BlockAt(idx, active_steps) = TrainStep
             THEN "Dumped" ELSE "InWith")
    /\ InList(BlockAt(idx, active_steps), active_steps)
    /\ HasAll(config, BlockKeys(BlockAt(idx, active_steps)))
    /\ log' = Append(log, [op |-> "launch",
                           step |-> BlockAt(idx, active_steps),
                           uri |-> Uri(BlockAt(idx, active_steps), config),
                           parameters |->
                               Parameters(BlockAt(idx, active_steps), config,
                                          rf_config)])
    /\ inflight' = BlockAt(idx, active_steps)
    /\ idx' = idx + 1
    /\ pc' = "InWith"
    /\ UNCHANGED <<run, config, environ, steps_par, active_steps, tmp_dir,
                   dirs, files, fp, rf_config, failed, files0>>

\* the call of mlflow.run in the if-block reached
Launch ==
    /\ idx \in 1..Len(IfBlocks)
    /\ pc = (IF BlockAt(idx, active_steps) = TrainStep
             THEN "Dumped" ELSE "InWith")
    /\ InList(BlockAt(idx, active_steps), active_steps)
    /\ HasAll(config, BlockKeys(BlockAt(idx, active_steps)))
    /\ log' = Append(log, [op |-> "launch",
                           step |-> BlockAt(idx, active_steps),
                           uri |-> Uri(BlockAt(idx, active_steps), config),
                           parameters |->
                               Parameters(BlockAt(idx, active_steps), config,
                                          rf_config)])
    /\ inflight' = BlockAt(idx, active_steps)
    /\ pc' = "Blocked"
    /\ UNCHANGED <<run, config, environ, steps_par, active_steps, tmp_dir,
                   dirs, files, fp, rf_config, idx, failed, files0>>

\* line 98 with modeling.random_forest missing: the read raises before
\* json.dump is called; the inner with closes the file it has truncated, the
\* outer with removes the directory
DumpRaises ==
    /\ pc = "Dumping"
    /\ ~HasAll(config, DumpKeys)
    /\ fp' = Closed
    /\ log' = Append(log, [op |-> "close", path |-> fp.path])
    /\ dirs' = dirs \ {tmp_dir}
    /\ files' = rmtree(files, tmp_dir)
    /\ pc' = "Failed"
    /\ UNCHANGED <<run, config, environ, steps_par, active_steps, tmp_dir,
                   rf_config, idx, inflight, failed, files0>>

\* an if-block whose test is true and whose arguments read a missing key: the
\* read raises before mlflow.run is called and the exception leaves the with
BindRaises ==
    /\ idx \in 1..Len(IfBlocks)
    /\ pc = (IF BlockAt(idx, active_steps) = TrainStep
             THEN "Dumped" ELSE "InWith")
    /\ InList(BlockAt(idx, active_steps), active_steps)
    /\ ~HasAll(config, BlockKeys(BlockAt(idx, active_steps)))
    /\ dirs' = dirs \ {tmp_dir}
    /\ files' = rmtree(files, tmp_dir)
    /\ pc' = "Failed"
    /\ UNCHANGED <<run, config, environ, steps_par, active_steps, tmp_dir,
                   fp, rf_config, idx, inflight, failed, log, files0>>

\* mlflow.run returns
StepSucceeds ==
    /\ pc = "Blocked"
    /\ inflight' = NoStep
    /\ idx' = idx + 1
    /\ log' = Append(log, [op |-> "return", step |-> inflight])
    /\ pc' = "InWith"
    /\ UNCHANGED <<run, config, environ, steps_par, active_steps, tmp_dir,
                   dirs, files, fp, rf_config, failed, files0>>

\* variant: the failure is caught and the next block is tried
StepFailsContinue ==
    /\ pc = "Blocked"
    /\ failed' = inflight
    /\ inflight' = NoStep
    /\ log' = Append(log, [op |-> "raise", step |-> inflight])
    /\ idx' = idx + 1
    /\ pc' = "InWith"
    /\ UNCHANGED <<run, config, environ, steps_par, active_steps, tmp_dir,
                   dirs, files, fp, rf_config, files0>>

\* variant: the directory is removed only at the end of the normal path
StepFailsLeak ==
    /\ pc = "Blocked"
    /\ failed' = inflight
    /\ inflight' = NoStep
    /\ log' = Append(log, [op |-> "raise", step |-> inflight])
    /\ pc' = "Failed"
    /\ UNCHANGED <<run, config, environ, steps_par, active_steps, tmp_dir,
                   dirs, files, fp, rf_config, idx, files0>>

\* mlflow.run raises: the exception leaves the with statement, which removes
\* the directory, and then leaves go()
StepFails ==
    /\ pc = "Blocked"
    /\ failed' = inflight
    /\ inflight' = NoStep
    /\ log' = Append(log, [op |-> "raise", step |-> inflight])
    /\ dirs' = dirs \ {tmp_dir}
    /\ files' = rmtree(files, tmp_dir)
    /\ pc' = "Failed"
    /\ UNCHANGED <<run, config, environ, steps_par, active_steps, tmp_dir,
                   fp, rf_config, idx, files0>>

\* variant: the with statement left one block early, or never
ExitWithOffByOne ==
    /\ pc = "InWith"
    /\ idx = Len(IfBlocks)
    /\ dirs' = dirs \ {tmp_dir}
    /\ files' = rmtree(files, tmp_dir)
    /\ pc' = "Completed"
    /\ UNCHANGED <<run, config, environ, steps_par, active_steps, tmp_dir,
                   fp, rf_config, idx, inflight, failed, log, files0>>

\* the end of the with statement after the last if-block
ExitWith ==
    /\ pc = "InWith"
    /\ idx = Len(IfBlocks) + 1
    /\ dirs' = dirs \ {tmp_dir}
    /\ files' = rmtree(files, tmp_dir)
    /\ pc' = "Completed"
    /\ UNCHANGED <<run, config, environ, steps_par, active_steps, tmp_dir,
                   fp, rf_config, idx, inflight, failed, log, files0>>

\* go() has returned or raised: the process ends, the disk stays as it is
Exit ==
    /\ pc \in {"Completed", "Failed"}
    /\ pc' = "Idle"
    /\ config' = NoConfig
    /\ environ' = [WANDB_PROJECT |-> None, WANDB_RUN_GROUP |-> None]
    /\ steps_par' = <<>>
    /\ active_steps' = <<>>
    /\ tmp_dir' = NoPath
    /\ rf_config' = NoPath
    /\ idx' = 0
    /\ failed' = NoStep
    /\ log' = <<>>
    /\ files0' = files
    /\ UNCHANGED <<run, dirs, files, fp, inflight>>

Steps ==
    \/ EnterWith
    \/ Skip
    \/ OpenRfConfig
    \/ DumpRfConfig
    \/ Launch
    \/ StepSucceeds
    \/ StepFails
    \/ ExitWith
    \/ Exit

GoAny == \E cfg \in Configs : Go(cfg)

GoBind == \E cfg \in BindConfigs : Go(cfg)

Next == GoAny \/ Steps

NextBind == GoBind \/ Steps

GoLacking == \E cfg \in LackingConfigs : Go(cfg)

GoLackingRaises == \E cfg \in LackingConfigs : GoRaises(cfg)

NextLacking ==
    \/ GoLacking
    \/ GoLackingRaises
    \/ Steps
    \/ DumpRaises
    \/ BindRaises

\* every selection, the default settings
Spec == Init /\ [][Next]_vars

\* the selections that bind the split and training parameters, every setting
SpecBind == Init /\ [][NextBind]_vars

\* every selection, the default settings with one key left out
SpecLacking == Init /\ [][NextLacking]_vars

\* the statements of go() itself: a running Python process executes its next
\* statement
Program ==
    \/ EnterWith
    \/ Skip
    \/ OpenRfConfig
    \/ DumpRfConfig
    \/ Launch
    \/ ExitWith

\* the end of the step process mlflow.run waits for
StepEnds == StepSucceeds \/ StepFails

\* every selection, the default settings; go() keeps executing and every
\* launched step process terminates
SpecLive ==
    /\ Init
    /\ [][Next]_vars
    /\ WF_vars(Program)
    /\ WF_vars(StepEnds)

-----------------------------------------------------------------------------
(* Observations shared by the properties *)

IsLaunch(e) == e.op = "launch"

Launches == SelectSeq(log, IsLaunch)

LaunchedSteps == [i \in 1..Len(Launches) |-> Launches[i].step]

Last(s) == s[Len(s)]

Terminal == pc \in {"Completed", "Failed"}

\* inside the with statement of line 36
InsideWith == pc \in {"InWith", "Dumping", "Dumped", "Blocked"}

\* the canonical order of the six steps, as the specification lists it
CanonicalOrder ==
    << <<"download">>, <<"basic_cleaning">>, <<"data_check">>,
       <<"data_split">>, <<"train_random_forest">>,
       <<"test_regression_model">> >>

KnownSteps == {CanonicalOrder[i] : i \in 1..Len(CanonicalOrder)}

\* the registry that "all" stands for
Registry ==
    << <<"download">>, <<"basic_cleaning">>, <<"data_check">>,
       <<"data_split">>, <<"train_random_forest">> >>

CanonicalIndex(name) ==
    CHOOSE i \in 1..Len(CanonicalOrder) : CanonicalOrder[i] = name

\* the word written at position i of the selection text sp is exactly `name`:
\* it starts the text or follows a comma, and ends the text or precedes one
WordAt(sp, i, name) ==
    /\ i + Len(name) - 1 <= Len(sp)
    /\ SubSeq(sp, i, i + Len(name) - 1) = name
    /\ (i = 1 \/ sp[i - 1] = ",")
    /\ (i + Len(name) - 1 = Len(sp) \/ sp[i + Len(name)] = ",")

Listed(name, sp) == \E i \in 1..Len(sp) : WordAt(sp, i, name)

TimesListed(name, sp) == Cardinality({i \in 1..Len(sp) : WordAt(sp, i, name)})

Explicit == pc # "Idle" /\ steps_par # <<"all">>

SelectedAll == pc # "Idle" /\ steps_par = <<"all">>

\* the steps a selection asks for, in canonical order
IsWanted(name) ==
    IF steps_par = <<"all">> THEN InList(name, Registry)
    ELSE Listed(name, steps_par)

Wanted == SelectSeq(CanonicalOrder, IsWanted)

IsPrefix(a, b) == Len(a) <= Len(b) /\ a = SubSeq(b, 1, Len(a))

-----------------------------------------------------------------------------
(* C1: fail-fast.  Once the launch of a step has failed, the run is Failed, *)
(* the failed launch is the last launch of the run and happened once, and  *)
(* no step is in flight; with "all" selected and the 2nd step              *)
(* (basic_cleaning) failing, exactly 2 launches have occurred.             *)
C1_FailFast ==
    failed # NoStep =>
        /\ pc = "Failed"
        /\ inflight = NoStep
        /\ Len(Launches) >= 1
        /\ Last(LaunchedSteps) = failed
        /\ Cardinality({i \in 1..Len(Launches) : LaunchedSteps[i] = failed}) = 1
        /\ (steps_par = <<"all">> /\ failed = <<"basic_cleaning">>
                => Len(Launches) = 2)

C1_Witness ==
    /\ pc = "Failed"
    /\ steps_par = <<"all">>
    /\ failed = <<"basic_cleaning">>
    /\ LaunchedSteps = << <<"download">>, <<"basic_cleaning">> >>

(* C2: cleanup.  Exactly one temporary directory exists while the run is    *)
(* inside the with statement (in particular while a step is running), and  *)
(* none exists once the run is Completed or Failed.                        *)
C2_Cleanup ==
    /\ InsideWith => tmp_dir \in dirs /\ Cardinality(dirs) = 1
    /\ Terminal => dirs = {}

C2_Witness == pc = "Failed" /\ run = 2 /\ dirs = {} /\ Len(Launches) >= 1

(* C3: canonical execution order.  The steps launched so far are always a   *)
(* prefix of the wanted steps taken in canonical order, they are all of    *)
(* them when the run completes, and their canonical positions increase;    *)
(* the wanted steps depend only on which names are listed, not on where.   *)
C3_CanonicalOrder ==
    pc # "Idle" =>
        /\ IsPrefix(LaunchedSteps, Wanted)
        /\ pc = "Completed" => LaunchedSteps = Wanted
        /\ \A i, j \in 1..Len(Launches) :
               i < j => CanonicalIndex(LaunchedSteps[i])
                            < CanonicalIndex(LaunchedSteps[j])

C3_Witness ==
    /\ pc = "Completed"
    /\ steps_par = <<"data_check", ",", "download">>
    /\ LaunchedSteps = << <<"download">>, <<"data_check">> >>

(* C4: unknown step names are a silent no-op.  With an explicit selection   *)
(* every launched step is one of the listed words, and a selection that    *)
(* lists no known step launches nothing, never fails and ends Completed.   *)
C4_UnknownNoOp ==
    Explicit =>
        /\ \A i \in 1..Len(Launches) : Listed(LaunchedSteps[i], steps_par)
        /\ (\A name \in KnownSteps : ~Listed(name, steps_par)) =>
               /\ log = <<>>
               /\ failed = NoStep
               /\ inflight = NoStep
               /\ Terminal => pc = "Completed"

C4_Witness ==
    /\ pc = "Completed"
    /\ steps_par = <<"bogus_step">>
    /\ active_steps = << <<"bogus_step">> >>
    /\ log = <<>>

(* C5: step-set resolution.  "all" resolves to the registry unchanged; any  *)
(* other selection resolves to its comma-separated words in the order      *)
(* listed, duplicates kept: joining the resolved words with commas gives   *)
(* the selection back, no word holds a comma, and there is one word more   *)
(* than there are commas.                                                  *)
Commas(sp) == Cardinality({i \in 1..Len(sp) : sp[i] = ","})

C5_Resolution ==
    /\ SelectedAll => active_steps = Registry
    /\ Explicit =>
           /\ Len(active_steps) = Commas(steps_par) + 1
           /\ JoinComma(active_steps) = steps_par
           /\ \A i \in 1..Len(active_steps) :
                  \A j \in 1..Len(active_steps[i]) : active_steps[i][j] # ","

C5_Witness ==
    /\ pc = "InWith"
    /\ steps_par = <<"download", ",", "download">>
    /\ active_steps = << <<"download">>, <<"download">> >>

(* C6 as stated: no step name occurs twice in the resolved step set.       *)
Occurrences(name, list) ==
    Cardinality({i \in 1..Len(list) : list[i] = name})

C6_NeverTwice ==
    pc # "Idle" =>
        \A name \in KnownSteps : Occurrences(name, active_steps) <= 1

(* C6 amended: a step name occurs twice in the resolved step set only when *)
(* the explicit selection lists it more than once; it occurs as often as   *)
(* it is listed, and at most once for "all".                               *)
C6_TwiceOnlyIfListedTwice ==
    /\ SelectedAll =>
           \A name \in KnownSteps : Occurrences(name, active_steps) <= 1
    /\ Explicit =>
           \A name \in KnownSteps :
               Occurrences(name, active_steps) = TimesListed(name, steps_par)

C6_Witness ==
    /\ pc = "Completed"
    /\ steps_par = <<"download", ",", "download">>
    /\ Occurrences(<<"download">>, active_steps) = 2
    /\ LaunchedSteps = << <<"download">> >>

(* C7 as stated: the file whose path is bound to rf_config lies inside the *)
(* temporary directory of the run and does not exist once the run is       *)
(* Completed or Failed.                                                    *)
C7_FileInTmpDir ==
    \A i \in 1..Len(Launches) :
        Launches[i].step = TrainStep =>
            /\ Under(Launches[i].parameters.rf_config.v, tmp_dir)
            /\ Terminal => ~Exists(files, Launches[i].parameters.rf_config.v)

(* C8: write-before-launch.  Every launch of train_random_forest comes     *)
(* after the file at the bound path was opened and closed in the same run, *)
(* with no reopening in between, and no file is open while the step runs;  *)
(* the file is written only when train_random_forest is selected, and no   *)
(* other step is handed its path.                                          *)
IsFileOp(e) == e.op \in {"open", "close"}

C8_WriteBeforeLaunch ==
    /\ \A i \in 1..Len(log) :
           (IsLaunch(log[i]) /\ log[i].step = TrainStep) =>
               \E j \in 1..(i - 1) : \E k \in 1..(j - 1) :
                   /\ log[k].op = "open"
                   /\ log[j].op = "close"
                   /\ log[k].path = log[i].parameters.rf_config.v
                   /\ log[j].path = log[i].parameters.rf_config.v
                   /\ \A m \in (j + 1)..(i - 1) : ~IsFileOp(log[m])
    /\ (pc = "Blocked" /\ inflight = TrainStep) => fp = Closed
    /\ (\E i \in 1..Len(log) : IsFileOp(log[i])) => IsWanted(TrainStep)
    /\ \A i, j \in 1..Len(log) :
           (IsLaunch(log[i]) /\ log[i].step # TrainStep /\ IsFileOp(log[j])) =>
               \A key \in DOMAIN log[i].parameters :
                   ~(/\ log[i].parameters[key].t = "str"
                     /\ log[i].parameters[key].v = log[j].path)

C8_Witness ==
    /\ pc = "Blocked"
    /\ inflight = TrainStep
    /\ Len(log) >= 3
    /\ log[Len(log) - 1].op = "close"
    /\ log[Len(log) - 1].path = Last(log).parameters.rf_config.v
    /\ files[rf_config] = json_dump(config.modeling.random_forest)

-----------------------------------------------------------------------------
(* Reading text back: numbers and JSON objects, as the steps read them.    *)
(* A result is [ok, val, pos]: pos is the position after what was read.    *)

Unreadable == [ok |-> FALSE, val |-> <<>>, pos |-> 0]
Read(val, pos) == [ok |-> TRUE, val |-> val, pos |-> pos]

IsDigit(c) == \E d \in 0..9 : Digits[d + 1] = c
DigitValue(c) == CHOOSE d \in 0..9 : Digits[d + 1] = c

RECURSIVE DigitsEnd(_, _)
DigitsEnd(s, i) ==
    IF i <= Len(s) /\ IsDigit(s[i]) THEN DigitsEnd(s, i + 1) ELSE i

RECURSIVE NatOf(_)
NatOf(ds) ==
    IF ds = <<>> THEN 0
    ELSE 10 * NatOf(SubSeq(ds, 1, Len(ds) - 1)) + DigitValue(Last(ds))

ReadNumber(s, i) ==
    LET neg == i <= Len(s) /\ s[i] = "-"
        st == IF neg THEN i + 1 ELSE i
        en == DigitsEnd(s, st)
        n == NatOf(SubSeq(s, st, en - 1))
    IN  IF en = st \/ (en - st > 1 /\ s[st] = "0") THEN Unreadable
        ELSE IF en <= Len(s) /\ s[en] = "."
        THEN IF ~neg /\ DigitsEnd(s, en + 1) = en + 2
             THEN Read(PyFloat(n, DigitValue(s[en + 1])), en + 2)
             ELSE Unreadable
        ELSE Read(PyInt(IF neg THEN -n ELSE n), en)

\* the number a text denotes, if it denotes one
NumberOf(text) ==
    LET r == ReadNumber(text, 1)
    IN  IF r.ok /\ r.pos = Len(text) + 1 THEN r.val ELSE None

RECURSIVE SkipBlanks(_, _)
SkipBlanks(s, i) ==
    IF i <= Len(s) /\ s[i] = " " THEN SkipBlanks(s, i + 1) ELSE i

RECURSIVE ReadQuoted(_, _, _)
ReadQuoted(s, i, acc) ==
    IF i > Len(s) THEN Unreadable
    ELSE IF s[i] = "\"" THEN Read(PyStr(acc), i + 1)
    ELSE IF s[i] = "\\"
    THEN IF i + 1 <= Len(s) /\ s[i + 1] \in {"\"", "\\"}
         THEN ReadQuoted(s, i + 2, Append(acc, s[i + 1]))
         ELSE Unreadable
    ELSE ReadQuoted(s, i + 1, Append(acc, s[i]))

ReadValue(s, i) ==
    IF i > Len(s) THEN Unreadable
    ELSE IF s[i] = "\"" THEN ReadQuoted(s, i + 1, <<>>)
    ELSE IF s[i] = "true" THEN Read(PyBool(TRUE), i + 1)
    ELSE IF s[i] = "false" THEN Read(PyBool(FALSE), i + 1)
    ELSE IF s[i] = "null" THEN Read(None, i + 1)
    ELSE ReadNumber(s, i)

RECURSIVE ReadMembers(_, _, _)
ReadMembers(s, i, acc) ==
    LET key == IF i <= Len(s) /\ s[i] = "\""
               THEN ReadQuoted(s, i + 1, <<>>) ELSE Unreadable
        colon == SkipBlanks(s, key.pos)
        value == ReadValue(s, SkipBlanks(s, colon + 1))
        after == SkipBlanks(s, value.pos)
        members == Append(acc, <<key.val.v, value.val>>)
    IN  IF ~key.ok \/ colon > Len(s) THEN Unreadable
        ELSE IF s[colon] # ":" \/ ~value.ok \/ after > Len(s) THEN Unreadable
        ELSE IF s[after] = ","
        THEN ReadMembers(s, SkipBlanks(s, after + 1), members)
        ELSE IF s[after] = "}" THEN Read(members, after + 1)
        ELSE Unreadable

\* json.load of a whole document that must be one object
json_load(s) ==
    LET open == SkipBlanks(s, 1)
        first == SkipBlanks(s, open + 1)
        object == IF first <= Len(s) /\ s[first] = "}"
                  THEN Read(<<>>, first + 1)
                  ELSE ReadMembers(s, first, <<>>)
    IN  IF open > Len(s) THEN Unreadable
        ELSE IF s[open] # "{" \/ ~object.ok THEN Unreadable
        ELSE IF SkipBlanks(s, object.pos) # Len(s) + 1 THEN Unreadable
        ELSE object

SameMapping(a, b) ==
    /\ Len(a) = Len(b)
    /\ \A i \in 1..Len(a) : a[i][1] = b[i][1] /\ ValEq(a[i][2], b[i][2])

\* the parameter p is the text of the number x
BoundAsText(p, x) ==
    /\ p.t = "str"
    /\ ValEq(NumberOf(p.v), x)
    /\ x = PyInt(42) => p.v = <<"4", "2">>

(* C9: numeric stringification for split and train.  Every launch of       *)
(* data_split binds test_size and random_seed, and every launch of         *)
(* train_random_forest binds val_size, random_seed and max_tfidf_features, *)
(* as a string that reads back as the configured number (42 as "42").      *)
C9_Stringified ==
    \A i \in 1..Len(Launches) :
        LET step == Launches[i].step
            par == Launches[i].parameters
        IN  /\ step = <<"data_split">> =>
                   /\ BoundAsText(par.test_size, config.modeling.test_size)
                   /\ BoundAsText(par.random_seed, config.modeling.random_seed)
            /\ step = TrainStep =>
                   /\ BoundAsText(par.val_size, config.modeling.val_size)
                   /\ BoundAsText(par.random_seed, config.modeling.random_seed)
                   /\ BoundAsText(par.max_tfidf_features,
                                  config.modeling.max_tfidf_features)

C9_Witness ==
    /\ Len(Launches) >= 2
    /\ Launches[1].step = <<"data_split">>
    /\ Launches[2].step = TrainStep
    /\ config.modeling.random_seed = PyInt(42)
    /\ config.modeling.test_size = PyInt(100)
    /\ config.modeling.val_size = PyFloat(0, 3)
    /\ Launches[1].parameters.random_seed = PyStr(<<"4", "2">>)
    /\ Launches[1].parameters.test_size = PyStr(<<"1", "0", "0">>)
    /\ Launches[2].parameters.val_size = PyStr(<<"0", ".", "3">>)

(* C10: hyperparameter round trip.  While train_random_forest runs, the    *)
(* file at the path bound to rf_config reads back as a JSON object equal   *)
(* to modeling.random_forest, whatever the file held before the run.       *)
C10_RoundTrip ==
    (pc = "Blocked" /\ inflight = TrainStep) =>
        LET path == Last(Launches).parameters.rf_config.v
        IN  /\ Exists(files, path)
            /\ json_load(files[path]).ok
            /\ SameMapping(json_load(files[path]).val,
                           config.modeling.random_forest)

C10_Witness ==
    /\ pc = "Blocked"
    /\ inflight = TrainStep
    /\ Exists(files0, rf_config)
    /\ files0[rf_config] = json_dump(StaleForest)
    /\ config.modeling.random_forest = RandomForest2
    /\ json_load(files[rf_config]).val = RandomForest2

-----------------------------------------------------------------------------
TestStep == <<"test_regression_model">>

Launched(name) == \E i \in 1..Len(Launches) : LaunchedSteps[i] = name

(* C13: the evaluation step is never run by "all".  With "all" selected    *)
(* test_regression_model is never launched, and a completed run has        *)
(* launched exactly download, basic_cleaning, data_check, data_split and   *)
(* train_random_forest in that order; test_regression_model is launched    *)
(* only when the explicit selection lists it.                              *)
C13_AllSkipsEvaluation ==
    /\ SelectedAll => ~Launched(TestStep)
    /\ (SelectedAll /\ pc = "Completed") => LaunchedSteps = Registry
    /\ Launched(TestStep) => Explicit /\ Listed(TestStep, steps_par)

C13_Witness ==
    /\ pc = "Completed"
    /\ steps_par = <<"all">>
    /\ Len(Launches) = Len(Registry)
    /\ Last(LaunchedSteps) = TrainStep

(* C14 as stated: with an explicit selection the known steps are launched  *)
(* in the order the caller listed them.                                    *)
FirstListedAt(name) ==
    CHOOSE i \in 1..Len(active_steps) :
        /\ active_steps[i] = name
        /\ \A k \in 1..(i - 1) : active_steps[k] # name

C14_ListedOrder ==
    Explicit =>
        \A i, j \in 1..Len(Launches) :
            i < j => FirstListedAt(LaunchedSteps[i])
                         < FirstListedAt(LaunchedSteps[j])

(* C14 amended: with an explicit selection the known steps of the resolved *)
(* sequence are launched in canonical order, whatever the order the caller *)
(* listed them in: "basic_cleaning,download" launches download first.      *)
IsActive(name) == \E i \in 1..Len(active_steps) : active_steps[i] = name

C14_CanonicalNotListedOrder ==
    Explicit =>
        /\ IsPrefix(LaunchedSteps, SelectSeq(CanonicalOrder, IsActive))
        /\ (/\ steps_par = <<"basic_cleaning", ",", "download">>
            /\ Len(Launches) >= 1) => LaunchedSteps[1] = <<"download">>

C14_Witness ==
    /\ steps_par = <<"basic_cleaning", ",", "download">>
    /\ active_steps = << <<"basic_cleaning">>, <<"download">> >>
    /\ LaunchedSteps = << <<"download">>, <<"basic_cleaning">> >>

(* C16: run identity.  From the moment go() has set them, before the       *)
(* temporary directory exists and before any launch, until the run is      *)
(* Completed or Failed, WANDB_PROJECT is main.project_name and             *)
(* WANDB_RUN_GROUP is main.experiment_name.                                *)
C16_RunIdentity ==
    /\ pc # "Idle" =>
           /\ environ.WANDB_PROJECT = config.main.project_name
           /\ environ.WANDB_RUN_GROUP = config.main.experiment_name
    /\ pc = "Initializing" => tmp_dir = NoPath /\ dirs = {} /\ log = <<>>

C16_Witness ==
    /\ pc = "Failed"
    /\ Len(Launches) = 2
    /\ environ.WANDB_PROJECT = PyStr(<<"nyc_airbnb">>)
    /\ environ.WANDB_RUN_GROUP = PyStr(<<"development">>)

(* C18 as stated: etl.min_price, etl.max_price and data_check.kl_threshold *)
(* are bound into the basic_cleaning and data_check parameters as strings. *)
C18_ThresholdsStringified ==
    \A i \in 1..Len(Launches) :
        LET step == Launches[i].step
            par == Launches[i].parameters
        IN  /\ step = <<"basic_cleaning">> =>
                   par.min_price.t = "str" /\ par.max_price.t = "str"
            /\ step = <<"data_check">> =>
                   /\ par.kl_threshold.t = "str"
                   /\ par.min_price.t = "str"
                   /\ par.max_price.t = "str"

(* C19: at-most-once launch.  No known step is launched twice in one run,  *)
(* also when the selection lists its name several times.                   *)
C19_AtMostOnce ==
    \A name \in KnownSteps : Occurrences(name, LaunchedSteps) <= 1

C19_Witness ==
    /\ pc = "Completed"
    /\ steps_par = <<"data_split", ",", "data_split">>
    /\ Occurrences(<<"data_split">>, active_steps) = 2
    /\ Occurrences(<<"data_split">>, LaunchedSteps) = 1

(* C20: "all" selects the registry only as the whole selection.  As one    *)
(* word of a comma list it stays a word of the resolved list that matches  *)
(* no step: exactly the other listed known steps are launched.             *)
C20_AllOnlyAsWhole ==
    /\ SelectedAll => ~IsActive(<<"all">>)
    /\ (Explicit /\ Listed(<<"all">>, steps_par)) =>
           /\ IsActive(<<"all">>)
           /\ \A name \in KnownSteps : Launched(name) => Listed(name, steps_par)
           /\ pc = "Completed" =>
                  \A name \in KnownSteps :
                      Listed(name, steps_par) => Launched(name)

C20_Witness ==
    /\ pc = "Completed"
    /\ steps_par = <<"all", ",", "download">>
    /\ active_steps = << <<"all">>, <<"download">> >>
    /\ LaunchedSteps = << <<"download">> >>

-----------------------------------------------------------------------------
\* the artifact reference <base>:<selector>
Reference(base, selector) == base \o <<":">> \o selector

\* ref is <base>:<selector> for some selector of one word
RefersTo(ref, base) ==
    /\ Len(ref) = Len(base) + 2
    /\ SubSeq(ref, 1, Len(base)) = base
    /\ ref[Len(base) + 1] = ":"
    /\ ref[Len(ref)] # ":"

(* C11: artifact wiring.  When a producer and a consumer are both launched *)
(* in a run, the producer is launched first and the consumer's reference   *)
(* is the producer's bound output name followed by ":" and a selector:     *)
(* basic_cleaning's input_artifact is download's artifact_name with        *)
(* ":latest"; data_check's csv and ref and data_split's input name         *)
(* basic_cleaning's output_artifact; test_regression_model's mlflow_model  *)
(* names train_random_forest's output_artifact.                            *)
C11_ArtifactWiring ==
    \A i, j \in 1..Len(Launches) :
        LET prod == Launches[i].step
            cons == Launches[j].step
            out == Launches[i].parameters
            inp == Launches[j].parameters
        IN  /\ (prod = <<"download">> /\ cons = <<"basic_cleaning">>) =>
                   /\ i < j
                   /\ inp.input_artifact.v
                          = Reference(out.artifact_name.v, <<"latest">>)
            /\ (prod = <<"basic_cleaning">> /\ cons = <<"data_check">>) =>
                   /\ i < j
                   /\ inp.csv.v = Reference(out.output_artifact.v, <<"latest">>)
                   /\ RefersTo(inp.ref.v, out.output_artifact.v)
            /\ (prod = <<"basic_cleaning">> /\ cons = <<"data_split">>) =>
                   /\ i < j
                   /\ RefersTo(inp.input.v, out.output_artifact.v)
            /\ (prod = TrainStep /\ cons = TestStep) =>
                   /\ i < j
                   /\ RefersTo(inp.mlflow_model.v, out.output_artifact.v)

C11_Witness ==
    /\ Len(Launches) >= 2
    /\ Launches[1].step = <<"download">>
    /\ Launches[2].step = <<"basic_cleaning">>
    /\ Launches[1].parameters.artifact_name.v = <<"sample.csv">>
    /\ Launches[2].parameters.input_artifact.v
           = <<"sample.csv", ":", "latest">>

-----------------------------------------------------------------------------
IsEnd(e) == e.op \in {"return", "raise"}

Ends == SelectSeq(log, IsEnd)

(* C15: strictly sequential execution.  At most one step is in flight: the *)
(* launches not yet ended are one while go() is blocked in mlflow.run and  *)
(* none otherwise.  The event after a launch is the end of that step, and  *)
(* a launch is followed by further events only after a successful return,  *)
(* so every launch comes after the successful end of the one before.       *)
C15_Sequential ==
    /\ Len(Launches) - Len(Ends) = (IF pc = "Blocked" THEN 1 ELSE 0)
    /\ (inflight # NoStep) <=> (pc = "Blocked")
    /\ \A i \in 1..(Len(log) - 1) :
           IsLaunch(log[i]) =>
               /\ IsEnd(log[i + 1])
               /\ log[i + 1].step = log[i].step
               /\ i + 1 < Len(log) => log[i + 1].op = "return"

C15_Witness ==
    /\ pc = "Blocked"
    /\ Len(Launches) = 2
    /\ Len(Ends) = 1
    /\ log[Len(log) - 1].op = "return"
    /\ log[Len(log) - 1].step = Launches[1].step

-----------------------------------------------------------------------------
(* C17: termination.  When every launched step process terminates, a run   *)
(* that has started reaches Completed or Failed with the temporary         *)
(* directory removed; while a step has not terminated, go() stays blocked  *)
(* on it and the only thing that can happen next is the end of that step,  *)
(* so no later step is launched.                                           *)
C17_Termination ==
    /\ (pc = "Initializing") ~> (Terminal /\ dirs = {})
    /\ [][pc = "Blocked" =>
              /\ Len(log') = Len(log) + 1
              /\ IsEnd(Last(log'))
              /\ Last(log').step = inflight
              /\ pc' \in {"InWith", "Failed"}]_vars

C17_Witness ==
    /\ pc = "Completed"
    /\ run = MaxRuns
    /\ dirs = {}
    /\ Len(Launches) = 2
    /\ Len(Ends) = 2

-----------------------------------------------------------------------------
\* a key the run has to read: one of lines 28-32, or one of a selected block
Required(k) ==
    \/ k \in MainKeys
    \/ \E i \in 1..Len(CanonicalOrder) :
          /\ IsActive(CanonicalOrder[i])
          /\ \/ k \in BlockKeys(CanonicalOrder[i])
             \/ CanonicalOrder[i] = TrainStep /\ k \in DumpKeys

LacksRequired ==
    /\ pc # "Idle"
    /\ \E k \in ConfigKeys : Required(k) /\ ~Has(config, k)

(* C12: configuration errors surface before any step runs.  Whenever a key  *)
(* required by the selected steps is missing from the configuration, the    *)
(* run launches no step at all and does not complete, also when the key is  *)
(* read only by a later step (etl.min_price with download selected too).    *)
C12_FailBeforeAnyStep ==
    LacksRequired => Launches = <<>> /\ pc # "Completed"

====
